---- MODULE Spec2Model ----
(***************************************************************************)
(* Model of the TSL2561 luminosity sensor driver                           *)
(* (src/drivers/sensors/tsl2561/tsl2561.c).                                *)
(*                                                                         *)
(* Every public driver function is one action.  The functions are          *)
(* translated as operators over a record holding the module-level state    *)
(* of the driver (the three statics, the shared I2C buffers and lengths,   *)
(* the loop index i), the device registers behind the bus and whether    *)
(* the bus is up.  An operator yields the set of states the function can  *)
(* return in: the external collaborators (i2cInit, i2cEngine) succeed or  *)
(* fail at every invocation.  Every invocation of an external             *)
(* collaborator is appended to the call's event trace.                    *)
(***************************************************************************)
EXTENDS Integers, Sequences, FiniteSets, TLC

(***************************************************************************)
(* Constants of tsl2561.h and i2c.h                                        *)
(***************************************************************************)
TSL2561_ADDRESS == 114
TSL2561_READBIT == 1
TSL2561_COMMAND_BIT == 128
TSL2561_WORD_BIT == 32
TSL2561_CONTROL_POWERON == 3
TSL2561_CONTROL_POWEROFF == 0
TSL2561_REGISTER_CONTROL == 0
TSL2561_REGISTER_TIMING == 1
TSL2561_REGISTER_CHAN0_LOW == 12
TSL2561_REGISTER_CHAN1_LOW == 14
TSL2561_INTEGRATIONTIME_13MS == 0
TSL2561_INTEGRATIONTIME_101MS == 1
TSL2561_INTEGRATIONTIME_402MS == 2
TSL2561_GAIN_0X == 0
TSL2561_GAIN_16X == 16
TSL2561_ERROR_OK == 0
TSL2561_ERROR_I2CINIT == 1
I2C_BUFSIZE == 6

\* Fixed-point scales of the lux calculation
TSL2561_LUX_LUXSCALE == 14
TSL2561_LUX_RATIOSCALE == 9
TSL2561_LUX_CHSCALE == 10
TSL2561_LUX_CHSCALE_TINT0 == 29975
TSL2561_LUX_CHSCALE_TINT1 == 4071

\* The calibration tables: entry n holds TSL2561_LUX_Kn, _Bn and _Mn of the
\* T/FN/CL package (suffix T) and of the CS package (suffix C)
TSL2561_LUX_T ==
  <<[k |-> 64,  b |-> 498, m |-> 446], [k |-> 128, b |-> 532, m |-> 721],
    [k |-> 192, b |-> 575, m |-> 891], [k |-> 256, b |-> 624, m |-> 1022],
    [k |-> 312, b |-> 367, m |-> 508], [k |-> 410, b |-> 210, m |-> 251],
    [k |-> 666, b |-> 24,  m |-> 18],  [k |-> 666, b |-> 0,   m |-> 0]>>

TSL2561_LUX_C ==
  <<[k |-> 67,  b |-> 516, m |-> 429], [k |-> 133, b |-> 552, m |-> 705],
    [k |-> 200, b |-> 595, m |-> 867], [k |-> 266, b |-> 642, m |-> 991],
    [k |-> 333, b |-> 375, m |-> 477], [k |-> 410, b |-> 257, m |-> 295],
    [k |-> 666, b |-> 55,  m |-> 43],  [k |-> 666, b |-> 0,   m |-> 0]>>

\* The two builds: TSL2561_PACKAGE_CS defined or not
Packages == {"T", "CS"}

(***************************************************************************)
(* Bounds of the model                                                     *)
(***************************************************************************)
\* largest integration-time argument tried (3 is outside the enum)
MaxIntegration == 3

\* the activations of tsl2561Init the stack has room for
MaxDepth == 3

\* the lines the console keeps, and the arguments a command line can carry
MaxConsole == 3
MaxArgs == 1

IntegrationTimes == 0 .. MaxIntegration
Gains == {TSL2561_GAIN_0X, TSL2561_GAIN_16X}
\* 16-bit words the device may hold in its channel registers
ChannelWords == {4660, 65535}

\* The raw channel values passed to tsl2561CalculateLux: pairs of samples,
\* and with ch0 = 2^TSL2561_LUX_RATIOSCALE every threshold Kn and Kn + 1 as
\* ch1 (at 402ms and gain 16x the rounded ratio is then ch1 itself)
LuxSamples == {0, 1, 30, 100, 500, 4660, 65535}

Thresholds ==
  {TSL2561_LUX_T[n].k : n \in 1 .. 8} \cup {TSL2561_LUX_C[n].k : n \in 1 .. 8}

LuxInputs ==
  (LuxSamples \X LuxSamples)
    \cup ({2^TSL2561_LUX_RATIOSCALE} \X (Thresholds \cup {k + 1 : k \in Thresholds}))
\* a caller's variable nothing has been stored in
NoValue == -1

\* C's bitwise OR on non-negative integers
RECURSIVE BitOr(_, _)
BitOr(a, b) ==
  IF a = 0 THEN b
  ELSE IF b = 0 THEN a
  ELSE (IF a % 2 = 1 \/ b % 2 = 1 THEN 1 ELSE 0) + 2 * BitOr(a \div 2, b \div 2)

VARIABLES
  tsl2561Initialised,
  tsl2561IntegrationTime,
  tsl2561Gain,
  I2CMasterBuffer,
  I2CSlaveBuffer,
  I2CWriteLength,
  I2CReadLength,
  i,
  dev,
  busUp,
  package,
  callers,
  lcdOrientation,
  console,
  lastCmd,
  last

vars == <<tsl2561Initialised, tsl2561IntegrationTime, tsl2561Gain,
          I2CMasterBuffer, I2CSlaveBuffer, I2CWriteLength, I2CReadLength,
          i, dev, busUp, package, callers, lcdOrientation, console, lastCmd,
          last>>

ZeroBuffer == [n \in 1 .. I2C_BUFSIZE |-> 0]

\* The device behind the bus: the control and timing registers as last
\* successfully written (power-down and 402ms/1x after power-on reset).
DevReset == [control |-> TSL2561_CONTROL_POWEROFF,
             timing |-> BitOr(TSL2561_INTEGRATIONTIME_402MS, TSL2561_GAIN_0X)]

\* One invocation of an external collaborator, with the driver's statics
\* and the bus buffers as they are when it is invoked.
Event(kind, s, ok, ms) ==
  [k |-> kind, buf |-> s.mbuf, wlen |-> s.wlen, rlen |-> s.rlen,
   ok |-> ok, ini |-> s.ini, it |-> s.it, gain |-> s.gain, ms |-> ms]

(***************************************************************************)
(* External collaborators                                                  *)
(***************************************************************************)
\* what a completed transfer does: a register write changes the addressed
\* device register, a read fills I2CSlaveBuffer low byte first
Completed(s, word) ==
  LET reg == s.mbuf[2] % 16
  IN IF s.rlen = 2
       THEN [s EXCEPT !.sbuf = <<word % 256, word \div 256>>]
     ELSE IF s.wlen = 3 /\ reg = TSL2561_REGISTER_CONTROL
       THEN [s EXCEPT !.dev.control = s.mbuf[3]]
     ELSE IF s.wlen = 3 /\ reg = TSL2561_REGISTER_TIMING
       THEN [s EXCEPT !.dev.timing = s.mbuf[3]]
     ELSE s

\* i2cEngine(): the transfer of I2CMasterBuffer completes or fails, and
\* always fails while the bus is not up; a failed transfer changes neither
\* the device nor I2CSlaveBuffer.
i2cEngine(s) ==
  {[s EXCEPT !.tr = Append(@, Event("xfer", s, FALSE, 0)), !.xok = FALSE]}
  \cup
  {[Completed(s, word) EXCEPT !.tr = Append(@, Event("xfer", s, TRUE, 0)),
                              !.xok = TRUE] :
     word \in IF ~s.bus THEN {}
              ELSE IF s.rlen = 2 THEN ChannelWords ELSE {0}}

\* i2cInit(I2CMASTER): the bus comes up (TRUE) or does not (FALSE); busUp is
\* the result of the latest attempt
i2cInit(s) ==
  {[s EXCEPT !.tr = Append(@, Event("i2cInit", s, ok, 0)), !.up = ok,
             !.bus = ok] :
     ok \in BOOLEAN}

\* systickDelay(ms)
systickDelay(s, ms) == [s EXCEPT !.tr = Append(@, Event("delay", s, TRUE, ms))]

(***************************************************************************)
(* Bus transaction layer                                                   *)
(***************************************************************************)
\* the clear loop stopping after the two bytes every frame overwrites
ClearWriteBuffer_Short(s) ==
  [s EXCEPT !.mbuf = [n \in 1 .. I2C_BUFSIZE |-> IF n <= 2 THEN 0 ELSE s.mbuf[n]],
            !.i = 2]

\* for ( i = 0; i < I2C_BUFSIZE; i++ ) I2CMasterBuffer[i] = 0x00;
ClearWriteBuffer(s) == [s EXCEPT !.mbuf = ZeroBuffer, !.i = I2C_BUFSIZE]

tsl2561WriteCmd(s, cmd) ==
  LET s1 == ClearWriteBuffer(s)
      s2 == [s1 EXCEPT !.wlen = 2, !.rlen = 0,
                        !.mbuf = [@ EXCEPT ![1] = TSL2561_ADDRESS, ![2] = cmd]]
  IN {[t EXCEPT !.ret = TSL2561_ERROR_OK, !.bret = TSL2561_ERROR_OK] :
        t \in i2cEngine(s2)}

tsl2561Write8(s, reg, value) ==
  LET s1 == ClearWriteBuffer(s)
      s2 == [s1 EXCEPT !.wlen = 3, !.rlen = 0,
                        !.mbuf = [@ EXCEPT ![1] = TSL2561_ADDRESS, ![2] = reg,
                                           ![3] = value % 256]]
  IN {[t EXCEPT !.ret = TSL2561_ERROR_OK, !.bret = TSL2561_ERROR_OK] :
        t \in i2cEngine(s2)}

\* tsl2561Read16 taking the first response byte as the high byte
tsl2561Read16_HighByteFirst(s, reg) ==
  LET s1 == ClearWriteBuffer(s)
      s2 == [s1 EXCEPT !.wlen = 2, !.rlen = 2,
                        !.mbuf = [@ EXCEPT ![1] = TSL2561_ADDRESS, ![2] = reg,
                                           ![3] = BitOr(TSL2561_ADDRESS, TSL2561_READBIT)]]
  IN {[t EXCEPT !.val = BitOr(t.sbuf[2], t.sbuf[1] * 256),
                !.ret = TSL2561_ERROR_OK, !.bret = TSL2561_ERROR_OK] :
        t \in i2cEngine(s2)}

\* field val is the value stored through the pointer, field bret (here and
\* in the two functions above) the result of the latest bus-layer function
tsl2561Read16(s, reg) ==
  LET s1 == ClearWriteBuffer(s)
      s2 == [s1 EXCEPT !.wlen = 2, !.rlen = 2,
                        !.mbuf = [@ EXCEPT ![1] = TSL2561_ADDRESS, ![2] = reg,
                                           ![3] = BitOr(TSL2561_ADDRESS, TSL2561_READBIT)]]
  IN {[t EXCEPT !.val = BitOr(t.sbuf[1], t.sbuf[2] * 256),
                !.ret = TSL2561_ERROR_OK, !.bret = TSL2561_ERROR_OK] :
        t \in i2cEngine(s2)}

(***************************************************************************)
(* Device state manager                                                    *)
(***************************************************************************)
RECURSIVE tsl2561Init(_)
RECURSIVE tsl2561Enable(_)
RECURSIVE tsl2561Disable(_)
RECURSIVE tsl2561SetTiming(_, _, _)

\* if (!_tsl2561Initialised) tsl2561Init();   (the result is not looked at)
LazyInit(s) == IF ~s.ini THEN tsl2561Init(s) ELSE {s}

\* tsl2561Enable without the check of the flag
tsl2561Enable_NoLazyInit(s) ==
  tsl2561Write8(s, BitOr(TSL2561_COMMAND_BIT, TSL2561_REGISTER_CONTROL),
                TSL2561_CONTROL_POWERON)

\* tsl2561Enable writing the power-on value to the timing register
tsl2561Enable_WritesTiming(s) ==
  UNION {tsl2561Write8(t, BitOr(TSL2561_COMMAND_BIT, TSL2561_REGISTER_TIMING),
                       TSL2561_CONTROL_POWERON) : t \in LazyInit(s)}

tsl2561Enable(s) ==
  UNION {tsl2561Write8(t, BitOr(TSL2561_COMMAND_BIT, TSL2561_REGISTER_CONTROL),
                       TSL2561_CONTROL_POWERON) : t \in LazyInit(s)}

\* tsl2561Disable writing the power-on value
tsl2561Disable_PowerOn(s) ==
  UNION {tsl2561Write8(t, BitOr(TSL2561_COMMAND_BIT, TSL2561_REGISTER_CONTROL),
                       TSL2561_CONTROL_POWERON) : t \in LazyInit(s)}

tsl2561Disable(s) ==
  UNION {tsl2561Write8(t, BitOr(TSL2561_COMMAND_BIT, TSL2561_REGISTER_CONTROL),
                       TSL2561_CONTROL_POWEROFF) : t \in LazyInit(s)}

\* tsl2561Init setting the flag before it knows the bus is up
tsl2561Init_FlagFirst(s) ==
  UNION {IF ~t.up
           THEN {[t EXCEPT !.ret = TSL2561_ERROR_I2CINIT, !.ini = TRUE]}
           ELSE {[u EXCEPT !.ret = TSL2561_ERROR_OK] :
                   u \in tsl2561SetTiming([t EXCEPT !.ini = TRUE], t.it, t.gain)} :
         t \in i2cInit(s)}

\* tsl2561Init bringing the bus up only when the flag is not set yet
tsl2561Init_OnlyOnce(s) ==
  IF s.ini
    THEN {[u EXCEPT !.ret = TSL2561_ERROR_OK] : u \in tsl2561SetTiming(s, s.it, s.gain)}
    ELSE UNION {IF ~t.up
                  THEN {[t EXCEPT !.ret = TSL2561_ERROR_I2CINIT]}
                  ELSE {[u EXCEPT !.ret = TSL2561_ERROR_OK] :
                          u \in tsl2561SetTiming([t EXCEPT !.ini = TRUE], t.it, t.gain)} :
                t \in i2cInit(s)}

\* tsl2561Init that does not write the timing register
tsl2561Init_NoSetTiming(s) ==
  {IF ~t.up THEN [t EXCEPT !.ret = TSL2561_ERROR_I2CINIT]
            ELSE [t EXCEPT !.ret = TSL2561_ERROR_OK, !.ini = TRUE] :
     t \in i2cInit(s)}

\* tsl2561Init clearing the flag when the bus does not come up
tsl2561Init_ClearsFlagOnFailure(s) ==
  UNION {IF ~t.up
           THEN {[t EXCEPT !.ret = TSL2561_ERROR_I2CINIT, !.ini = FALSE]}
           ELSE {[u EXCEPT !.ret = TSL2561_ERROR_OK] :
                   u \in tsl2561SetTiming([t EXCEPT !.ini = TRUE], t.it, t.gain)} :
         t \in i2cInit(s)}

\* tsl2561Init setting the flag after it has called tsl2561SetTiming
tsl2561Init_FlagLast(s) ==
  IF s.depth >= MaxDepth THEN {[s EXCEPT !.overflow = TRUE]}
  ELSE LET e == [s EXCEPT !.depth = @ + 1,
                          !.deep = IF @ > s.depth THEN @ ELSE s.depth + 1]
       IN {[u EXCEPT !.depth = s.depth] :
             u \in UNION {IF ~t.up
                            THEN {[t EXCEPT !.ret = TSL2561_ERROR_I2CINIT]}
                            ELSE {[u EXCEPT !.ret = TSL2561_ERROR_OK, !.ini = TRUE] :
                                    u \in tsl2561SetTiming(t, t.it, t.gain)} :
                          t \in i2cInit(e)}}

\* depth counts the activations of tsl2561Init on the stack and deep is the
\* most there were at once in the call; an activation the stack has no room
\* for ends the program (overflow)
tsl2561Init(s) ==
  IF s.depth >= MaxDepth THEN {[s EXCEPT !.overflow = TRUE]}
  ELSE LET e == [s EXCEPT !.depth = @ + 1,
                          !.deep = IF @ > s.depth THEN @ ELSE s.depth + 1]
       IN {[u EXCEPT !.depth = s.depth] :
             u \in UNION {IF ~t.up
                            THEN {[t EXCEPT !.ret = TSL2561_ERROR_I2CINIT]}
                            ELSE {[u EXCEPT !.ret = TSL2561_ERROR_OK] :
                                    u \in tsl2561SetTiming([t EXCEPT !.ini = TRUE],
                                                           t.it, t.gain)} :
                          t \in i2cInit(e)}}

\* the timing-register write with the placeholders updated before it
SetTimingWrite_UpdateFirst(s, integration, gain) ==
  UNION {IF t.ret # TSL2561_ERROR_OK
           THEN {t}
           ELSE tsl2561Disable(t) :
         t \in tsl2561Write8([s EXCEPT !.it = integration, !.gain = gain],
                             BitOr(TSL2561_COMMAND_BIT, TSL2561_REGISTER_TIMING),
                             BitOr(integration, gain))}

\* tsl2561SetTiming returning after the update of the placeholders
SetTimingWrite_NoDisable(s, integration, gain) ==
  UNION {IF t.ret # TSL2561_ERROR_OK
           THEN {t}
           ELSE {[t EXCEPT !.it = integration, !.gain = gain]} :
         t \in tsl2561Write8(s, BitOr(TSL2561_COMMAND_BIT, TSL2561_REGISTER_TIMING),
                             BitOr(integration, gain))}

\* tsl2561SetTiming from the timing-register write on
SetTimingWrite(s, integration, gain) ==
  UNION {IF t.ret # TSL2561_ERROR_OK
           THEN {t}
           ELSE tsl2561Disable([t EXCEPT !.it = integration, !.gain = gain]) :
         t \in tsl2561Write8(s, BitOr(TSL2561_COMMAND_BIT, TSL2561_REGISTER_TIMING),
                             BitOr(integration, gain))}

\* tsl2561SetTiming without the call of tsl2561Enable
tsl2561SetTiming_NoEnable(s, integration, gain) ==
  UNION {SetTimingWrite(t, integration, gain) : t \in LazyInit(s)}

tsl2561SetTiming(s, integration, gain) ==
  UNION {IF t.ret # TSL2561_ERROR_OK
           THEN {t}
           ELSE SetTimingWrite(t, integration, gain) :
         t \in UNION {tsl2561Enable(s0) : s0 \in LazyInit(s)}}

(***************************************************************************)
(* Acquisition sequencer                                                   *)
(***************************************************************************)
\* the delays without the settling margin
DelayFor_NoMargin(integrationTime) ==
  CASE integrationTime = TSL2561_INTEGRATIONTIME_13MS -> 13
    [] integrationTime = TSL2561_INTEGRATIONTIME_101MS -> 101
    [] OTHER -> 402

\* switch (_tsl2561IntegrationTime) of tsl2561GetLuminosity
DelayFor(integrationTime) ==
  CASE integrationTime = TSL2561_INTEGRATIONTIME_13MS -> 14
    [] integrationTime = TSL2561_INTEGRATIONTIME_101MS -> 102
    [] OTHER -> 400

\* the channel-0 read addressed without the word bit
Chan0Reg_NoWordBit == BitOr(TSL2561_COMMAND_BIT, TSL2561_REGISTER_CHAN0_LOW)

Chan0Reg == BitOr(BitOr(TSL2561_COMMAND_BIT, TSL2561_WORD_BIT), TSL2561_REGISTER_CHAN0_LOW)
Chan1Reg == BitOr(BitOr(TSL2561_COMMAND_BIT, TSL2561_WORD_BIT), TSL2561_REGISTER_CHAN1_LOW)

\* the channel-1 read returning without the final tsl2561Disable
ReadInfrared_NoDisable(s) ==
  {[t EXCEPT !.out.ir = t.val] : t \in tsl2561Read16(s, Chan1Reg)}

\* tsl2561GetLuminosity from the channel-1 read on; out.broadband and out.ir
\* are the caller's two variables behind the pointers
ReadInfrared(s) ==
  UNION {IF t.ret # TSL2561_ERROR_OK
           THEN {[t EXCEPT !.out.ir = t.val]}
           ELSE tsl2561Disable([t EXCEPT !.out.ir = t.val]) :
         t \in tsl2561Read16(s, Chan1Reg)}

\* the channel-0 read issued before the delay
ReadBroadband_DelayAfterRead(s) ==
  UNION {IF t.ret # TSL2561_ERROR_OK
           THEN {[t EXCEPT !.out.broadband = t.val]}
           ELSE ReadInfrared(systickDelay([t EXCEPT !.out.broadband = t.val],
                                          DelayFor(s.it))) :
         t \in tsl2561Read16(s, Chan0Reg)}

\* tsl2561GetLuminosity from the delay on
ReadBroadband(s) ==
  UNION {IF t.ret # TSL2561_ERROR_OK
           THEN {[t EXCEPT !.out.broadband = t.val]}
           ELSE ReadInfrared([t EXCEPT !.out.broadband = t.val]) :
         t \in tsl2561Read16(systickDelay(s, DelayFor(s.it)), Chan0Reg)}

tsl2561GetLuminosity(s) ==
  UNION {IF t.ret # TSL2561_ERROR_OK
           THEN {t}
           ELSE ReadBroadband(t) :
         t \in UNION {tsl2561Enable(s0) : s0 \in LazyInit(s)}}

(***************************************************************************)
(* Illuminance calculator                                                  *)
(***************************************************************************)
\* unsigned long and uint32_t are 32 bits wide on the LPC1343: a value is
\* the pair <<high half, low half>> of its 16-bit halves, and every
\* operation is taken modulo 2^32
Half == 65536

U32(n) == <<(n \div Half) % Half, n % Half>>

ToInt(a) == a[1] * Half + a[2]

LessU32(a, b) == a[1] < b[1] \/ (a[1] = b[1] /\ a[2] < b[2])

AddU32(a, b) ==
  LET lo == a[2] + b[2]
  IN <<(a[1] + b[1] + (lo \div Half)) % Half, lo % Half>>

SubU32(a, b) ==
  LET borrow == IF a[2] < b[2] THEN 1 ELSE 0
  IN <<(a[1] - b[1] - borrow + Half) % Half, (a[2] - b[2] + Half) % Half>>

\* the product of two 16-bit values, which fits 32 bits
Mul16(x, y) ==
  LET p == (x \div 256) * y
      q == (x % 256) * y
      lo == (p % 256) * 256 + (q % Half)
  IN <<((p \div 256) + (q \div Half) + (lo \div Half)) % Half, lo % Half>>

MulU32(a, b) ==
  LET low == Mul16(a[2], b[2])
  IN <<(low[1] + Mul16(a[1], b[2])[2] + Mul16(a[2], b[1])[2]) % Half, low[2]>>

\* shifts by n bits, 0 <= n <= 16
ShrU32(a, n) ==
  <<a[1] \div (2^n), ((a[2] \div (2^n)) + (a[1] % (2^n)) * (2^(16 - n))) % Half>>

ShlU32(a, n) ==
  <<(a[1] * (2^n) + (a[2] \div (2^(16 - n)))) % Half, (a[2] * (2^n)) % Half>>

\* a / d for a divisor 0 < d < 2^22, byte by byte from the top
DivU32(a, d) ==
  LET c3 == a[1] \div 256
      c2 == (c3 % d) * 256 + (a[1] % 256)
      c1 == (c2 % d) * 256 + (a[2] \div 256)
      c0 == (c1 % d) * 256 + (a[2] % 256)
  IN <<((c3 \div d) * 256 + (c2 \div d)) % Half, (c1 \div d) * 256 + (c0 \div d)>>

\* switch (_tsl2561IntegrationTime) ...; if (!_tsl2561Gain) chScale <<= 4
ChScale(integrationTime, gain) ==
  LET chScale ==
        IF integrationTime = TSL2561_INTEGRATIONTIME_13MS
          THEN U32(TSL2561_LUX_CHSCALE_TINT0)
        ELSE IF integrationTime = TSL2561_INTEGRATIONTIME_101MS
          THEN U32(TSL2561_LUX_CHSCALE_TINT1)
        ELSE ShlU32(U32(1), TSL2561_LUX_CHSCALE)
  IN IF gain = 0 THEN ShlU32(chScale, 4) ELSE chScale

\* channelN = (chN * chScale) >> TSL2561_LUX_CHSCALE
ScaleChannel(ch, chScale) ==
  ShrU32(MulU32(U32(ch), chScale), TSL2561_LUX_CHSCALE)

\* the division made whatever channel0 holds
Divides_Always(channel0) == TRUE

\* if (channel0 != 0)
Divides(channel0) == channel0 # U32(0)

\* unsigned long ratio1 = 0; if (channel0 != 0) ratio1 = (channel1 <<
\* (TSL2561_LUX_RATIOSCALE+1)) / channel0;  A division by zero is undefined:
\* the Cortex-M3 UDIV yields 0, or faults when the divide-by-zero trap is on.
Ratio1(channel0, channel1) ==
  IF ~Divides(channel0) THEN {[q |-> U32(0), fault |-> FALSE]}
  ELSE IF channel0 = U32(0)
    THEN {[q |-> U32(0), fault |-> FALSE], [q |-> U32(0), fault |-> TRUE]}
  ELSE {[q |-> DivU32(ShlU32(channel1, TSL2561_LUX_RATIOSCALE + 1),
                      ToInt(channel0)),
         fault |-> FALSE]}

\* unsigned long ratio = (ratio1 + 1) >> 1;
RoundRatio(ratio1) == ToInt(ShrU32(AddU32(ratio1, U32(1)), 1))

\* the rounded ratio of a call that returns
Ratio(channel0, channel1) ==
  RoundRatio((CHOOSE r \in Ratio1(channel0, channel1) : ~r.fault).q)

\* #ifdef TSL2561_PACKAGE_CS
Table(pkg) == IF pkg = "CS" THEN TSL2561_LUX_C ELSE TSL2561_LUX_T

\* the catch-all test missing the first ratio above K8
Coefficients_GapAboveLast(pkg, ratio) ==
  LET t == Table(pkg)
      hits == {n \in 1 .. 7 : ratio >= 0 /\ ratio <= t[n].k}
      first == CHOOSE n \in hits : \A other \in hits : n <= other
  IN IF hits # {} THEN {[n |-> first, b |-> t[first].b, m |-> t[first].m]}
     ELSE IF ratio > t[8].k + 1 THEN {[n |-> 8, b |-> t[8].b, m |-> t[8].m]}
     ELSE {[n |-> 0, b |-> t[e].b, m |-> t[f].m] : e, f \in 1 .. 8}

\* the segments closed below instead of above: ratio < Kn, then ratio >= K8
Coefficients_ExclusiveBounds(pkg, ratio) ==
  LET t == Table(pkg)
      hits == {n \in 1 .. 7 : ratio >= 0 /\ ratio < t[n].k}
      first == CHOOSE n \in hits : \A other \in hits : n <= other
  IN IF hits # {} THEN {[n |-> first, b |-> t[first].b, m |-> t[first].m]}
     ELSE IF ratio >= t[8].k THEN {[n |-> 8, b |-> t[8].b, m |-> t[8].m]}
     ELSE {[n |-> 0, b |-> t[e].b, m |-> t[f].m] : e, f \in 1 .. 8}

\* The if / else-if chain: entries 1 to 7 are taken by ratio <= Kn, entry 8
\* by ratio > K8; n is the entry taken.  When no branch is taken b and m
\* keep whatever the uninitialised locals hold (n = 0).
Coefficients(pkg, ratio) ==
  LET t == Table(pkg)
      hits == {n \in 1 .. 7 : ratio >= 0 /\ ratio <= t[n].k}
      first == CHOOSE n \in hits : \A other \in hits : n <= other
  IN IF hits # {} THEN {[n |-> first, b |-> t[first].b, m |-> t[first].m]}
     ELSE IF ratio > t[8].k THEN {[n |-> 8, b |-> t[8].b, m |-> t[8].m]}
     ELSE {[n |-> 0, b |-> t[e].b, m |-> t[f].m] : e, f \in 1 .. 8}

\* temp = ((channel0 * b) - (channel1 * m))
RawLux(channel0, channel1, c) ==
  SubU32(MulU32(channel0, U32(c.b)), MulU32(channel1, U32(c.m)))

\* temp < 0, temp being an unsigned long
LessThanZero(temp) == FALSE

\* if (temp < 0) temp = 0;
ClampLux(temp) == IF LessThanZero(temp) THEN U32(0) ELSE temp

\* the rounding bias being a whole unit, 1 << TSL2561_LUX_LUXSCALE
RoundLux_FullBias(temp) ==
  ToInt(ShrU32(AddU32(temp, ShlU32(U32(1), TSL2561_LUX_LUXSCALE)),
               TSL2561_LUX_LUXSCALE))

\* temp += (1 << (TSL2561_LUX_LUXSCALE-1)); lux = temp >> TSL2561_LUX_LUXSCALE
RoundLux(temp) ==
  ToInt(ShrU32(AddU32(temp, ShlU32(U32(1), TSL2561_LUX_LUXSCALE - 1)),
               TSL2561_LUX_LUXSCALE))

\* The locals of tsl2561CalculateLux(ch0, ch1) at its end, in build pkg with
\* the statics holding integrationTime and gain: the scaled channels,
\* whether the division was made, the rounded ratio, the table entry taken
\* and its coefficients, and the lux returned (none after a fault).
NoCalc == [channel0 |-> NoValue, channel1 |-> NoValue, divided |-> FALSE,
           fault |-> FALSE, ratio |-> NoValue, n |-> NoValue, b |-> NoValue,
           m |-> NoValue, lux |-> NoValue]

LuxSteps(pkg, integrationTime, gain, ch0, ch1) ==
  LET chScale == ChScale(integrationTime, gain)
      channel0 == ScaleChannel(ch0, chScale)
      channel1 == ScaleChannel(ch1, chScale)
      Locals(r) == [NoCalc EXCEPT !.channel0 = ToInt(channel0),
                                  !.channel1 = ToInt(channel1),
                                  !.divided = Divides(channel0),
                                  !.fault = r.fault]
      Returns(r) ==
        {[Locals(r) EXCEPT
            !.ratio = RoundRatio(r.q), !.n = c.n, !.b = c.b, !.m = c.m,
            !.lux = RoundLux(ClampLux(RawLux(channel0, channel1, c)))] :
           c \in Coefficients(pkg, RoundRatio(r.q))}
  IN UNION {IF r.fault THEN {Locals(r)} ELSE Returns(r) :
              r \in Ratio1(channel0, channel1)}

\* the values tsl2561CalculateLux(ch0, ch1) can return in build pkg with
\* the statics holding integrationTime and gain
Lux(pkg, integrationTime, gain, ch0, ch1) ==
  {r.lux : r \in LuxSteps(pkg, integrationTime, gain, ch0, ch1)}

\* tsl2561CalculateLux reading the loop index i instead of
\* _tsl2561IntegrationTime
tsl2561CalculateLux_ReadsLoopIndex(s, ch0, ch1) ==
  {[s EXCEPT !.ret = r.lux, !.calc = r] :
     r \in LuxSteps(s.pkg, s.i, s.gain, ch0, ch1)}

\* tsl2561CalculateLux starting with the lazy initialisation
tsl2561CalculateLux_LazyInit(s, ch0, ch1) ==
  UNION {{[u EXCEPT !.ret = r.lux, !.calc = r] :
            r \in LuxSteps(u.pkg, u.it, u.gain, ch0, ch1)} :
         u \in LazyInit(s)}

\* field calc holds the locals of the call
tsl2561CalculateLux(s, ch0, ch1) ==
  {[s EXCEPT !.ret = r.lux, !.calc = r] :
     r \in LuxSteps(s.pkg, s.it, s.gain, ch0, ch1)}

(***************************************************************************)
(* The state machine                                                       *)
(***************************************************************************)
\* last is the record of the call that has just returned: the function, its
\* arguments, the statics and the transmit buffer as they were at the call, the
\* result, the events of the call and what was stored through its pointers.
\* package is the build of the driver, fixed from the start.
\* Between the caller taking the result and its next call, last is NoCall.
NoOut == [broadband |-> NoValue, ir |-> NoValue]

NoCall == [op |-> "none", args |-> <<>>,
           pre |-> [ini |-> FALSE, it |-> 0, gain |-> 0, mbuf |-> ZeroBuffer],
           ret |-> TSL2561_ERROR_OK, bret |-> NoValue, tr |-> <<>>,
           out |-> NoOut, val |-> NoValue, calc |-> NoCalc,
           deep |-> 0, overflow |-> FALSE]

\* The LCD and the command line: the orientation the LCD driver holds, the
\* lines printed, and the record of the command that has just run (its
\* argc and argv, whether getNumber stored a number, the value switched on
\* and the orientation and the console before the command)
LCD_ORIENTATION_PORTRAIT == 0
LCD_ORIENTATION_LANDSCAPE == 1

Shell == <<lcdOrientation, console, lastCmd>>

NoCmd == [argc |-> NoValue, argv |-> <<>>, parsed |-> FALSE, value |-> NoValue,
          before |-> NoValue, shown |-> <<>>]

\* by statement: where each one is (pc) and in which function with which
\* arguments (op), whether two of them have ever been inside the bus layer
\* at once (overlapped), whether the clear loop has written past the
\* buffer (oob), and the invocation of the engine the caller at its return
\* has just made (sent)
Callers == {1, 2}

NoOp == [name |-> "none", reg |-> 0, value |-> 0]

NoSent == [by |-> 0, op |-> NoOp, other |-> NoOp, buf |-> ZeroBuffer,
           wlen |-> 0, rlen |-> 0]

NoCallers == [pc |-> [p \in Callers |-> "idle"], op |-> [p \in Callers |-> NoOp],
              overlapped |-> FALSE, oob |-> FALSE, sent |-> NoSent]

Init ==
  /\ tsl2561Initialised = FALSE
  /\ tsl2561IntegrationTime = TSL2561_INTEGRATIONTIME_402MS
  /\ tsl2561Gain = TSL2561_GAIN_0X
  /\ I2CMasterBuffer = ZeroBuffer
  /\ I2CSlaveBuffer = <<0, 0>>
  /\ I2CWriteLength = 0
  /\ I2CReadLength = 0
  /\ i = 0
  /\ dev = DevReset
  /\ busUp = FALSE
  /\ package \in Packages
  /\ callers = NoCallers
  /\ lcdOrientation = LCD_ORIENTATION_PORTRAIT
  /\ console = <<>>
  /\ lastCmd = NoCmd
  /\ last = NoCall

\* the state a call starts in
Entry ==
  [ini |-> tsl2561Initialised, it |-> tsl2561IntegrationTime,
   gain |-> tsl2561Gain, mbuf |-> I2CMasterBuffer, sbuf |-> I2CSlaveBuffer,
   wlen |-> I2CWriteLength, rlen |-> I2CReadLength, i |-> i, dev |-> dev,
   bus |-> busUp, pkg |-> package,
   up |-> FALSE, xok |-> FALSE, tr |-> <<>>, ret |-> TSL2561_ERROR_OK,
   bret |-> NoValue, val |-> NoValue, out |-> NoOut, calc |-> NoCalc,
   depth |-> 0, deep |-> 0, overflow |-> FALSE]

\* the call of op with args returns in one of the states of results
Call(op, args, results) ==
  /\ last.op = "none"
  /\ \E s \in results :
       /\ tsl2561Initialised' = s.ini
       /\ tsl2561IntegrationTime' = s.it
       /\ tsl2561Gain' = s.gain
       /\ I2CMasterBuffer' = s.mbuf
       /\ I2CSlaveBuffer' = s.sbuf
       /\ I2CWriteLength' = s.wlen
       /\ I2CReadLength' = s.rlen
       /\ i' = s.i
       /\ dev' = s.dev
       /\ busUp' = s.bus
       /\ UNCHANGED <<package, callers, Shell>>
       /\ last' = [op |-> op, args |-> args,
                   pre |-> [ini |-> tsl2561Initialised,
                            it |-> tsl2561IntegrationTime, gain |-> tsl2561Gain,
                            mbuf |-> I2CMasterBuffer],
                   ret |-> s.ret, bret |-> s.bret, tr |-> s.tr,
                   out |-> s.out, val |-> s.val, calc |-> s.calc,
                   deep |-> s.deep, overflow |-> s.overflow]

\* the caller has taken the result
Resume ==
  /\ last.op # "none"
  /\ last' = NoCall
  /\ UNCHANGED <<tsl2561Initialised, tsl2561IntegrationTime, tsl2561Gain,
                 I2CMasterBuffer, I2CSlaveBuffer, I2CWriteLength,
                 I2CReadLength, i, dev, busUp, package, callers, Shell>>

CallInit == Call("init", <<>>, tsl2561Init(Entry))

CallEnable == Call("enable", <<>>, tsl2561Enable(Entry))

CallDisable == Call("disable", <<>>, tsl2561Disable(Entry))

CallSetTiming ==
  \E integration \in IntegrationTimes, gain \in Gains :
    Call("setTiming", <<integration, gain>>,
         tsl2561SetTiming(Entry, integration, gain))

CallGetLuminosity == Call("getLuminosity", <<>>, tsl2561GetLuminosity(Entry))

Next ==
  \/ CallInit
  \/ CallEnable
  \/ CallDisable
  \/ CallSetTiming
  \/ CallGetLuminosity
  \/ Resume

Spec == Init /\ [][Next]_vars

\* The bus transaction layer called directly, tsl2561Init bringing the bus up
BusRegs == {BitOr(TSL2561_COMMAND_BIT, TSL2561_REGISTER_CONTROL),
            BitOr(TSL2561_COMMAND_BIT, TSL2561_REGISTER_TIMING),
            Chan0Reg, Chan1Reg}
BusValues == {0, 3, 18, 255, 258}

CallWriteCmd ==
  \E cmd \in BusRegs : Call("writeCmd", <<cmd>>, tsl2561WriteCmd(Entry, cmd))

CallWrite8 ==
  \E reg \in BusRegs, value \in BusValues :
    Call("write8", <<reg, value>>, tsl2561Write8(Entry, reg, value))

CallRead16 ==
  \E reg \in BusRegs : Call("read16", <<reg>>, tsl2561Read16(Entry, reg))

NextBus ==
  \/ CallInit
  \/ CallWriteCmd
  \/ CallWrite8
  \/ CallRead16
  \/ Resume

SpecBus == Init /\ [][NextBus]_vars

\* The illuminance calculator called under every configuration
CallCalculateLux ==
  \E input \in LuxInputs :
    Call("calculateLux", input, tsl2561CalculateLux(Entry, input[1], input[2]))

NextLux ==
  \/ CallSetTiming
  \/ CallCalculateLux
  \/ Resume

SpecLux == Init /\ [][NextLux]_vars

(***************************************************************************)
(* Reading the record of a call                                            *)
(***************************************************************************)
ControlReg == BitOr(TSL2561_COMMAND_BIT, TSL2561_REGISTER_CONTROL)
TimingReg == BitOr(TSL2561_COMMAND_BIT, TSL2561_REGISTER_TIMING)

IsXfer(e) == e.k = "xfer"
IsWrite(e, reg, value) ==
  /\ e.k = "xfer" /\ e.wlen = 3 /\ e.rlen = 0
  /\ e.buf = <<TSL2561_ADDRESS, reg, value, 0, 0, 0>>
IsTimingWrite(e) ==
  e.k = "xfer" /\ e.wlen = 3 /\ e.rlen = 0 /\ e.buf[2] = TimingReg
IsRead16(e, reg) ==
  /\ e.k = "xfer" /\ e.wlen = 2 /\ e.rlen = 2
  /\ e.buf = <<TSL2561_ADDRESS, reg, TSL2561_ADDRESS + TSL2561_READBIT, 0, 0, 0>>
IsPowerOn(e) == IsWrite(e, ControlReg, TSL2561_CONTROL_POWERON)
IsPowerOff(e) == IsWrite(e, ControlReg, TSL2561_CONTROL_POWEROFF)

Indices(tr, Test(_)) == {n \in 1 .. Len(tr) : Test(tr[n])}
XferIndices(tr) == Indices(tr, IsXfer)
IsDelay(e) == e.k = "delay"
IsBusInit(e) == e.k = "i2cInit"
Max(S) == CHOOSE n \in S : \A m \in S : m <= n

\* The transfers that are steps of tsl2561GetLuminosity itself (not of an
\* implicit init): the one right before the delay and those after it; the
\* last transfer of the call when the call requested no delay.
OwnSteps(tr) ==
  LET d == Indices(tr, IsDelay)
      x == XferIndices(tr)
  IN IF d # {} THEN {n \in x : n >= Max(d) - 1}
     ELSE IF x # {} THEN {Max(x)} ELSE {}

LazyOps == {"enable", "disable", "setTiming", "getLuminosity"}

(***************************************************************************)
(* The bus transaction layer statement by statement, with two callers      *)
(***************************************************************************)
RaceOps ==
  {[name |-> "writeCmd", reg |-> Chan1Reg, value |-> 0],
   [name |-> "write8", reg |-> TimingReg, value |-> 18],
   [name |-> "read16", reg |-> Chan0Reg, value |-> 0]}

Other(p) == CHOOSE q \in Callers : q # p

Moved(p, there) == [callers EXCEPT !.pc[p] = there]

DriverState == <<tsl2561Initialised, tsl2561IntegrationTime, tsl2561Gain,
                 dev, busUp, package, Shell, last>>

\* a caller enters tsl2561WriteCmd, tsl2561Write8 or tsl2561Read16
BusCall(p) ==
  /\ callers.pc[p] = "idle"
  /\ \E op \in RaceOps :
       callers' = [Moved(p, "for_init") EXCEPT
                     !.op[p] = op,
                     !.overlapped = @ \/ callers.pc[Other(p)] # "idle"]
  /\ UNCHANGED <<I2CMasterBuffer, I2CSlaveBuffer, I2CWriteLength,
                 I2CReadLength, i, DriverState>>

\* for ( i = 0; ...
ClearInit(p) ==
  /\ callers.pc[p] = "for_init"
  /\ i' = 0
  /\ callers' = Moved(p, "for_test")
  /\ UNCHANGED <<I2CMasterBuffer, I2CSlaveBuffer, I2CWriteLength,
                 I2CReadLength, DriverState>>

\* the loop left after the two bytes every frame overwrites
ClearTest_StopsEarly(p) ==
  /\ callers.pc[p] = "for_test"
  /\ callers' = Moved(p, IF i < 2 THEN "for_body" ELSE "set_wlen")
  /\ UNCHANGED <<I2CMasterBuffer, I2CSlaveBuffer, I2CWriteLength,
                 I2CReadLength, i, DriverState>>

\* ... i < I2C_BUFSIZE; ...
ClearTest(p) ==
  /\ callers.pc[p] = "for_test"
  /\ callers' = Moved(p, IF i < I2C_BUFSIZE THEN "for_body" ELSE "set_wlen")
  /\ UNCHANGED <<I2CMasterBuffer, I2CSlaveBuffer, I2CWriteLength,
                 I2CReadLength, i, DriverState>>

\* I2CMasterBuffer[i] = 0x00;  With i past the end (the other caller has
\* incremented the shared i since the test) the zero byte lands behind the
\* buffer: on nothing of the model, or on one of the variables that can be
\* its neighbour.
ClearBody(p) ==
  /\ callers.pc[p] = "for_body"
  /\ IF i < I2C_BUFSIZE
       THEN /\ I2CMasterBuffer' = [I2CMasterBuffer EXCEPT ![i + 1] = 0]
            /\ callers' = Moved(p, "for_incr")
            /\ UNCHANGED <<I2CSlaveBuffer, I2CWriteLength, I2CReadLength>>
       ELSE /\ callers' = [Moved(p, "for_incr") EXCEPT !.oob = TRUE]
            /\ \E hit \in {"none", "slave", "wlen", "rlen"} :
                 /\ I2CSlaveBuffer' = IF hit = "slave"
                                        THEN [I2CSlaveBuffer EXCEPT ![1] = 0]
                                        ELSE I2CSlaveBuffer
                 /\ I2CWriteLength' = IF hit = "wlen" THEN 0 ELSE I2CWriteLength
                 /\ I2CReadLength' = IF hit = "rlen" THEN 0 ELSE I2CReadLength
            /\ UNCHANGED I2CMasterBuffer
  /\ UNCHANGED <<i, DriverState>>

\* ... i++ )
ClearIncr(p) ==
  /\ callers.pc[p] = "for_incr"
  /\ i' = i + 1
  /\ callers' = Moved(p, "for_test")
  /\ UNCHANGED <<I2CMasterBuffer, I2CSlaveBuffer, I2CWriteLength,
                 I2CReadLength, DriverState>>

\* I2CWriteLength = 2 (3 in tsl2561Write8);
SetWriteLength(p) ==
  /\ callers.pc[p] = "set_wlen"
  /\ I2CWriteLength' = IF callers.op[p].name = "write8" THEN 3 ELSE 2
  /\ callers' = Moved(p, "set_rlen")
  /\ UNCHANGED <<I2CMasterBuffer, I2CSlaveBuffer, I2CReadLength, i, DriverState>>

\* I2CReadLength = 0 (2 in tsl2561Read16);
SetReadLength(p) ==
  /\ callers.pc[p] = "set_rlen"
  /\ I2CReadLength' = IF callers.op[p].name = "read16" THEN 2 ELSE 0
  /\ callers' = Moved(p, "set_addr")
  /\ UNCHANGED <<I2CMasterBuffer, I2CSlaveBuffer, I2CWriteLength, i, DriverState>>

\* I2CMasterBuffer[0] = TSL2561_ADDRESS;
SetAddress(p) ==
  /\ callers.pc[p] = "set_addr"
  /\ I2CMasterBuffer' = [I2CMasterBuffer EXCEPT ![1] = TSL2561_ADDRESS]
  /\ callers' = Moved(p, "set_reg")
  /\ UNCHANGED <<I2CSlaveBuffer, I2CWriteLength, I2CReadLength, i, DriverState>>

\* I2CMasterBuffer[1] = cmd;  (reg in tsl2561Write8 and tsl2561Read16)
SetRegister(p) ==
  /\ callers.pc[p] = "set_reg"
  /\ I2CMasterBuffer' = [I2CMasterBuffer EXCEPT ![2] = callers.op[p].reg]
  /\ callers' = Moved(p, IF callers.op[p].name = "writeCmd"
                           THEN "engine" ELSE "set_third")
  /\ UNCHANGED <<I2CSlaveBuffer, I2CWriteLength, I2CReadLength, i, DriverState>>

\* I2CMasterBuffer[2] = (value & 0xFF);  or, in tsl2561Read16,
\* I2CMasterBuffer[2] = TSL2561_ADDRESS | TSL2561_READBIT;
SetThird(p) ==
  /\ callers.pc[p] = "set_third"
  /\ I2CMasterBuffer' =
       [I2CMasterBuffer EXCEPT
          ![3] = IF callers.op[p].name = "read16"
                   THEN BitOr(TSL2561_ADDRESS, TSL2561_READBIT)
                   ELSE callers.op[p].value % 256]
  /\ callers' = Moved(p, "engine")
  /\ UNCHANGED <<I2CSlaveBuffer, I2CWriteLength, I2CReadLength, i, DriverState>>

\* i2cEngine();
InvokeEngine(p) ==
  /\ callers.pc[p] = "engine"
  /\ \E t \in i2cEngine(Entry) :
       /\ I2CSlaveBuffer' = t.sbuf
       /\ dev' = t.dev
  /\ callers' = [Moved(p, "return") EXCEPT
                   !.sent = [by |-> p, op |-> callers.op[p],
                             other |-> callers.op[Other(p)],
                             buf |-> I2CMasterBuffer,
                             wlen |-> I2CWriteLength,
                             rlen |-> I2CReadLength]]
  /\ UNCHANGED <<I2CMasterBuffer, I2CWriteLength, I2CReadLength, i,
                 tsl2561Initialised, tsl2561IntegrationTime, tsl2561Gain,
                 busUp, package, Shell, last>>

\* return TSL2561_ERROR_OK;  (after *value = ... in tsl2561Read16)
Return(p) ==
  /\ callers.pc[p] = "return"
  /\ callers' = [Moved(p, "idle") EXCEPT
                   !.op[p] = NoOp,
                   !.sent = IF @.by = p THEN NoSent ELSE @]
  /\ UNCHANGED <<I2CMasterBuffer, I2CSlaveBuffer, I2CWriteLength,
                 I2CReadLength, i, DriverState>>

NextRace ==
  \E p \in Callers :
    \/ BusCall(p)
    \/ ClearInit(p)
    \/ ClearTest(p)
    \/ ClearBody(p)
    \/ ClearIncr(p)
    \/ SetWriteLength(p)
    \/ SetReadLength(p)
    \/ SetAddress(p)
    \/ SetRegister(p)
    \/ SetThird(p)
    \/ InvokeEngine(p)
    \/ Return(p)

SpecRace == Init /\ [][NextRace]_vars

(***************************************************************************)
(* The orientation command (cmd_orientation.c)                             *)
(***************************************************************************)
\* the arguments typed, character by character
Arguments ==
  {<<"0">>, <<"1">>, <<"2">>, <<"0", "1">>, <<"-", "1">>, <<"2", "5", "6">>,
   <<"x">>}

\* values an uninitialised int32_t can hold
StackValues == {-1, 0, 1, 2, 256}

Digits == <<"0", "1", "2", "3", "4", "5", "6", "7", "8", "9">>

IsDigit(c) == \E d \in 1 .. 10 : Digits[d] = c

DigitValue(c) == (CHOOSE d \in 1 .. 10 : Digits[d] = c) - 1

RECURSIVE Decimal(_)
Decimal(chars) ==
  IF chars = <<>> THEN 0
  ELSE 10 * Decimal(SubSeq(chars, 1, Len(chars) - 1)) + DigitValue(chars[Len(chars)])

\* getNumber(s, &result): a decimal number, with or without a sign, is
\* stored through result; for anything else nothing is stored
getNumber(chars) ==
  LET signed == Len(chars) > 1 /\ chars[1] = "-"
      digits == IF signed THEN Tail(chars) ELSE chars
  IN IF digits # <<>> /\ \A n \in 1 .. Len(digits) : IsDigit(digits[n])
       THEN [parsed |-> TRUE,
             value |-> IF signed THEN 0 - Decimal(digits) ELSE Decimal(digits)]
       ELSE [parsed |-> FALSE, value |-> NoValue]

\* printf: the line is appended to the console
printf(line) ==
  /\ Len(console) < MaxConsole
  /\ console' = Append(console, line)

\* the value switched on taken as a byte
SwitchValue_AsByte(value) == value % 256

\* switch (value), value being an int32_t
SwitchValue(value) == value

\* cmd_orientation(argc, argv)
CmdOrientation ==
  /\ \E argc \in 0 .. MaxArgs :
       \E argv \in [1 .. argc -> Arguments] :
         IF argc = 0
           THEN /\ printf(<<"%d", lcdOrientation>>)
                /\ lastCmd' = [NoCmd EXCEPT !.argc = argc,
                                            !.before = lcdOrientation,
                                            !.shown = console]
                /\ UNCHANGED lcdOrientation
           ELSE LET number == getNumber(argv[1])
                IN \E value \in IF number.parsed THEN {number.value}
                                                 ELSE StackValues :
                     /\ lastCmd' = [argc |-> argc, argv |-> argv,
                                    parsed |-> number.parsed, value |-> value,
                                    before |-> lcdOrientation, shown |-> console]
                     /\ IF SwitchValue(value) = 0
                          THEN /\ lcdOrientation' = LCD_ORIENTATION_PORTRAIT
                               /\ UNCHANGED console
                        ELSE IF SwitchValue(value) = 1
                          THEN /\ lcdOrientation' = LCD_ORIENTATION_LANDSCAPE
                               /\ UNCHANGED console
                        ELSE /\ printf(<<"Invalid value: Enter 0 or 1">>)
                             /\ UNCHANGED lcdOrientation
  /\ UNCHANGED <<tsl2561Initialised, tsl2561IntegrationTime, tsl2561Gain,
                 I2CMasterBuffer, I2CSlaveBuffer, I2CWriteLength,
                 I2CReadLength, i, dev, busUp, package, callers, last>>

NextCmd == CmdOrientation

SpecCmd == Init /\ [][NextCmd]_vars

(***************************************************************************)
(* Claims                                                                  *)
(***************************************************************************)

\* C1: when the timing-register write of a setTiming call fails, the
\* integrationTime and gain after the call equal those before it.
C1_FailedTimingWriteKeepsState ==
  (/\ last.op = "setTiming"
   /\ \E n \in 1 .. Len(last.tr) : IsTimingWrite(last.tr[n]) /\ ~last.tr[n].ok)
  => (tsl2561IntegrationTime = last.pre.it /\ tsl2561Gain = last.pre.gain)

\* C2: between driver operations the in-memory integrationTime and gain are
\* the integration and gain bits last successfully written to the timing
\* register (the power-on defaults 402ms/1x when none was written).
C2_StateMatchesTimingRegister ==
  /\ tsl2561IntegrationTime = dev.timing % 16
  /\ tsl2561Gain = (dev.timing \div 16) * 16

\* C3: when the enable, a channel read or the final disable of getLuminosity
\* fails, the call returns an error and stores nothing in the caller's
\* broadband and infrared variables.
C3_NoReadingOnFailedStep ==
  (/\ last.op = "getLuminosity"
   /\ \E n \in OwnSteps(last.tr) : ~last.tr[n].ok)
  => (last.ret # TSL2561_ERROR_OK /\ last.out = NoOut)

\* C4 as stated: every successful getLuminosity call, whatever state it
\* starts in, performs the power-off write exactly once, as its last bus
\* transaction.
C4_PowerOffExactlyOnceFromAnyState ==
  (last.op = "getLuminosity" /\ last.ret = TSL2561_ERROR_OK)
  => (/\ Cardinality(Indices(last.tr, IsPowerOff)) = 1
      /\ XferIndices(last.tr) # {}
      /\ IsPowerOff(last.tr[Max(XferIndices(last.tr))]))

\* C4 as amended: the last bus transaction of every successful
\* getLuminosity call is the power-off write; it is the call's only
\* power-off write unless the call brought the bus up in an implicit init,
\* whose setTiming performs one more before it.
C4_PowerOffLastOncePerSequence ==
  (last.op = "getLuminosity" /\ last.ret = TSL2561_ERROR_OK)
  => (/\ XferIndices(last.tr) # {}
      /\ IsPowerOff(last.tr[Max(XferIndices(last.tr))])
      /\ Cardinality(Indices(last.tr, IsPowerOff))
           = IF \E n \in 1 .. Len(last.tr) :
                   IsBusInit(last.tr[n]) /\ last.tr[n].ok
               THEN 2 ELSE 1
      /\ last.pre.ini => Cardinality(Indices(last.tr, IsPowerOff)) = 1)

C4_Witness ==
  /\ last.op = "getLuminosity" /\ last.ret = TSL2561_ERROR_OK
  /\ ~last.pre.ini /\ tsl2561Initialised
  /\ Cardinality(Indices(last.tr, IsPowerOff)) = 2
  /\ \A n \in XferIndices(last.tr) : last.tr[n].ok

\* C5: on an initialized driver getLuminosity issues exactly: power-on
\* write, delay, 16-bit read of channel 0, 16-bit read of channel 1,
\* power-off write, in this order, and nothing else.
C5_AcquisitionOrder ==
  (last.op = "getLuminosity" /\ last.pre.ini)
  => (/\ Len(last.tr) = 5
      /\ IsPowerOn(last.tr[1])
      /\ IsDelay(last.tr[2])
      /\ IsRead16(last.tr[3], 128 + 32 + TSL2561_REGISTER_CHAN0_LOW)
      /\ IsRead16(last.tr[4], 128 + 32 + TSL2561_REGISTER_CHAN1_LOW)
      /\ IsPowerOff(last.tr[5]))

C5_Witness ==
  /\ last.op = "getLuminosity" /\ last.pre.ini
  /\ last.ret = TSL2561_ERROR_OK
  /\ Len(last.tr) = 5
  /\ \A n \in XferIndices(last.tr) : last.tr[n].ok
  /\ last.out.broadband = 4660 /\ last.out.ir = 65535

\* C6: getLuminosity requests exactly one delay per call: 14 ms when the
\* integrationTime held at the call is the 13ms setting, 102 ms for the
\* 101ms setting, 400 ms for the 402ms setting and any other value.
C6_DelayByIntegrationTime ==
  last.op = "getLuminosity"
  => (/\ Cardinality(Indices(last.tr, IsDelay)) = 1
      /\ \A n \in Indices(last.tr, IsDelay) :
           last.tr[n].ms = IF last.pre.it = TSL2561_INTEGRATIONTIME_13MS THEN 14
                           ELSE IF last.pre.it = TSL2561_INTEGRATIONTIME_101MS THEN 102
                           ELSE 400)

C6_Witness ==
  /\ last.op = "getLuminosity"
  /\ last.pre.it = TSL2561_INTEGRATIONTIME_13MS
  /\ \E n \in 1 .. Len(last.tr) : IsDelay(last.tr[n]) /\ last.tr[n].ms = 14

C8_LazyInitFailureForwarded ==
  (/\ last.op \in LazyOps
   /\ ~last.pre.ini
   /\ \A n \in Indices(last.tr, IsBusInit) : ~last.tr[n].ok)
  => (/\ last.ret = TSL2561_ERROR_I2CINIT
      /\ XferIndices(last.tr) = {}
      /\ last.out = NoOut)

\* C9: writeCommand, writeRegister and readRegister16 invoke the engine at
\* most once per call, return a bus error whenever its transfer fails and
\* success only when it completes.
C9_TransferFailureSurfaced ==
  last.op \in {"writeCmd", "write8", "read16"}
  => (/\ Cardinality(XferIndices(last.tr)) <= 1
      /\ \A n \in XferIndices(last.tr) :
           (last.ret = TSL2561_ERROR_OK) <=> last.tr[n].ok)

\* C10: on an initialized driver setTiming(integration, gain) performs
\* exactly three register writes: power-on to the control register, the
\* byte (integration | gain) to the timing register, power-off to the
\* control register; the in-memory state still has the old values at the
\* timing write and has the new ones at the power-off write.
C10_SetTimingSequence ==
  (last.op = "setTiming" /\ last.pre.ini)
  => (/\ Len(last.tr) = 3
      /\ IsPowerOn(last.tr[1])
      /\ IsWrite(last.tr[2], 128 + TSL2561_REGISTER_TIMING,
                 BitOr(last.args[1], last.args[2]))
      /\ last.tr[2].it = last.pre.it /\ last.tr[2].gain = last.pre.gain
      /\ IsPowerOff(last.tr[3])
      /\ last.tr[3].it = last.args[1] /\ last.tr[3].gain = last.args[2]
      /\ tsl2561IntegrationTime = last.args[1] /\ tsl2561Gain = last.args[2])

C10_Witness ==
  /\ last.op = "setTiming" /\ last.pre.ini
  /\ last.ret = TSL2561_ERROR_OK
  /\ last.args = <<TSL2561_INTEGRATIONTIME_13MS, TSL2561_GAIN_16X>>
  /\ last.pre.it = TSL2561_INTEGRATIONTIME_402MS /\ last.pre.gain = TSL2561_GAIN_0X
  /\ Len(last.tr) = 3
  /\ \A n \in 1 .. 3 : last.tr[n].ok
  /\ dev.timing = 16

Min(S) == CHOOSE n \in S : \A m \in S : n <= m
FailedXfers(tr) == {n \in XferIndices(tr) : ~tr[n].ok}
BusInits(tr) == Indices(tr, IsBusInit)
BusUps(tr) == {n \in BusInits(tr) : tr[n].ok}

\* C11: setTiming aborts at its first failed step and returns that step's
\* error: no transfer follows a failed enable write or a failed timing
\* write.  (Stated for calls on an initialized driver, whose transfers are
\* exactly the steps of setTiming.)
C11_AbortsAtFirstFailedStep ==
  (last.op = "setTiming" /\ last.pre.ini /\ FailedXfers(last.tr) # {})
  => (/\ Max(XferIndices(last.tr)) = Min(FailedXfers(last.tr))
      /\ last.ret # TSL2561_ERROR_OK)

\* C12: on return of every successful init() integrationTime is 402ms, gain
\* is 1x and the last byte written to the timing register encodes 402ms
\* and 1x.
C12_InitAppliesDefaults ==
  (last.op = "init" /\ last.ret = TSL2561_ERROR_OK)
  => (/\ tsl2561IntegrationTime = TSL2561_INTEGRATIONTIME_402MS
      /\ tsl2561Gain = TSL2561_GAIN_0X
      /\ Indices(last.tr, IsTimingWrite) # {}
      /\ last.tr[Max(Indices(last.tr, IsTimingWrite))].buf[3] = 2)

\* C13 as stated: an init() call made while initialized is true does not
\* invoke the bus initialization.
C13_NoBusInitWhenInitialised ==
  (last.op = "init" /\ last.pre.ini) => BusInits(last.tr) = {}

\* C13 as amended: every init() call invokes the bus initialization exactly
\* once, as its first step, also when initialized is already true.
C13_BusInitOnEveryInit ==
  last.op = "init"
  => (/\ Cardinality(BusInits(last.tr)) = 1
      /\ IsBusInit(last.tr[1]))

C13_Witness ==
  /\ last.op = "init" /\ last.pre.ini
  /\ IsBusInit(last.tr[1]) /\ last.tr[1].ok
  /\ Len(last.tr) = 4

\* C14: a lazy operation (enable, disable, setTiming, getLuminosity) called
\* while initialized is false invokes the bus initialization before its
\* first bus transfer; called while initialized is true it does not invoke
\* it; and a bus initialization that succeeds in a lazy operation turns
\* initialized from false to true for good, so that it succeeds at most
\* once per process through the lazy path.
C14_LazyStep ==
  /\ tsl2561Initialised => tsl2561Initialised'
  /\ last'.op \in LazyOps
     => (/\ ~tsl2561Initialised
            => (BusInits(last'.tr) # {} /\ IsBusInit(last'.tr[1]))
         /\ tsl2561Initialised => BusInits(last'.tr) = {}
         /\ Cardinality(BusUps(last'.tr)) <= 1
         /\ BusUps(last'.tr) # {} => (~tsl2561Initialised /\ tsl2561Initialised'))

C14_LazyInitAtMostOnce == [][C14_LazyStep]_vars

C14_Witness ==
  /\ last.op \in LazyOps /\ ~last.pre.ini /\ tsl2561Initialised
  /\ Cardinality(BusInits(last.tr)) = 2
  /\ Cardinality(BusUps(last.tr)) = 1

\* C15: readRegister16(reg) hands the engine the frame [deviceAddress, reg,
\* deviceAddress | readBit] with write length 2 and read length 2, and
\* returns b0 + 256 * b1 for the response bytes (b0, b1) in the receive
\* buffer.
C15_Read16FrameAndValue ==
  last.op = "read16"
  => (/\ Len(last.tr) = 1
      /\ IsRead16(last.tr[1], last.args[1])
      /\ last.val = I2CSlaveBuffer[1] + 256 * I2CSlaveBuffer[2]
      /\ last.tr[1].ok => last.val \in ChannelWords)

C15_Witness ==
  /\ last.op = "read16" /\ last.tr[1].ok
  /\ I2CSlaveBuffer = <<52, 18>>
  /\ last.val = 4660

\* C16: at the invocation of the engine by writeCommand, writeRegister or
\* readRegister16 the transmit buffer holds the frame of this transaction
\* and zero in every other byte, whatever it held before.
C16_TransmitBufferIsFrame ==
  /\ last.op = "writeCmd"
     => last.tr[1].buf = <<TSL2561_ADDRESS, last.args[1], 0, 0, 0, 0>>
  /\ last.op = "write8"
     => last.tr[1].buf = <<TSL2561_ADDRESS, last.args[1], last.args[2] % 256, 0, 0, 0>>
  /\ last.op = "read16"
     => last.tr[1].buf = <<TSL2561_ADDRESS, last.args[1],
                           TSL2561_ADDRESS + TSL2561_READBIT, 0, 0, 0>>

C16_Witness ==
  /\ last.op = "writeCmd"
  /\ last.pre.mbuf[3] # 0
  /\ last.tr[1].buf[3] = 0
  /\ I2CMasterBuffer[3] = 0

\* C17: on an initialized driver enable() performs exactly one bus
\* transaction, the write of the power-on value to the control register,
\* and disable() exactly one, the write of the power-off value; each
\* returns the result of that write.
C17_EnableDisableOneWrite ==
  /\ (last.op = "enable" /\ last.pre.ini)
     => (Len(last.tr) = 1 /\ IsPowerOn(last.tr[1]) /\ last.ret = last.bret)
  /\ (last.op = "disable" /\ last.pre.ini)
     => (Len(last.tr) = 1 /\ IsPowerOff(last.tr[1]) /\ last.ret = last.bret)

C17_Witness ==
  /\ last.op = "disable" /\ last.pre.ini
  /\ Len(last.tr) = 1 /\ last.tr[1].ok
  /\ last.pre.mbuf[3] = TSL2561_CONTROL_POWERON
  /\ dev.control = TSL2561_CONTROL_POWEROFF

\* the scaled channels of the call recorded in last
LastChannel(n) ==
  ScaleChannel(last.args[n], ChScale(last.pre.it, last.pre.gain))

\* the table entries the call recorded in last can have taken
LastCoefficients ==
  Coefficients(package, Ratio(LastChannel(1), LastChannel(2)))

\* channel0 * b - channel1 * m is negative (neither product exceeds 32 bits)
RawLuxNegative(c) ==
  LessU32(MulU32(LastChannel(1), U32(c.b)), MulU32(LastChannel(2), U32(c.m)))

\* C18: whenever channel0 * B - channel1 * M is negative the raw lux is
\* clamped to 0 before rounding, so calculateLux returns 0 and never a
\* wrapped negative value.
C18_NegativeRawLuxClampsToZero ==
  (last.op = "calculateLux" /\ \E c \in LastCoefficients : RawLuxNegative(c))
  => last.ret = 0

\* C19: for ch0 = 0 calculateLux does not depend on ch1: calculateLux(0, ch1)
\* equals calculateLux(0, 0) under the same integration time and gain.
C19_ZeroBroadbandIgnoresInfrared ==
  (last.op = "calculateLux" /\ last.args[1] = 0)
  => last.ret \in Lux(package, last.pre.it, last.pre.gain, 0, 0)

\* C20: calculateLux(0, 0) returns 0 under every integration time and gain.
C20_ZeroInputsGiveZeroLux ==
  (last.op = "calculateLux" /\ last.args = <<0, 0>>) => last.ret = 0

C20_Witness ==
  /\ last.op = "calculateLux" /\ last.args = <<0, 0>>
  /\ last.pre.it = TSL2561_INTEGRATIONTIME_13MS
  /\ last.pre.gain = TSL2561_GAIN_16X
  /\ last.ret = 0

\* C21: calculateLux is deterministic: the lux returned is fixed by ch0,
\* ch1, integrationTime and gain (and the build), whatever driver operations
\* and calls ran before.
C21_LuxFixedByInputsAndSettings ==
  last.op = "calculateLux"
  => LET values == Lux(package, last.pre.it, last.pre.gain,
                       last.args[1], last.args[2])
     IN Cardinality(values) = 1 /\ last.ret \in values

C21_Witness ==
  /\ last.op = "calculateLux" /\ last.args = <<100, 30>>
  /\ package = "T" /\ last.pre.ini /\ i = I2C_BUFSIZE
  /\ I2CMasterBuffer # ZeroBuffer
  /\ last.pre.it = TSL2561_INTEGRATIONTIME_402MS
  /\ last.pre.gain = TSL2561_GAIN_0X
  /\ last.ret = 30

\* C22: breakpoint selection is total: exactly one of the 8 table entries
\* assigns (B, M), every ratio above the last finite threshold takes the
\* final entry, and no ratio is left between the seventh comparison and the
\* eighth with B and M unassigned (K8 does not exceed K7).
C22_SelectionIsTotal ==
  last.op = "calculateLux"
  => /\ last.calc.n \in 1 .. 8
     /\ Cardinality(Coefficients(package, last.calc.ratio)) = 1
     /\ last.calc.b = Table(package)[last.calc.n].b
     /\ last.calc.m = Table(package)[last.calc.n].m
     /\ last.calc.ratio > Table(package)[7].k => last.calc.n = 8
     /\ Table(package)[8].k <= Table(package)[7].k

C22_Witness ==
  /\ last.op = "calculateLux"
  /\ last.calc.ratio = Table(package)[7].k + 1
  /\ last.calc.n = 8
  /\ last.ret = 0

\* C23: a rounded ratio equal to threshold Kn (n = 1..7) selects entry n,
\* and the ratio Kn + 1 selects a later entry.
C23_InclusiveUpperBound ==
  last.op = "calculateLux"
  => \A n \in 1 .. 7 :
       /\ last.calc.ratio = Table(package)[n].k
          => (/\ last.calc.n = n
              /\ last.calc.b = Table(package)[n].b
              /\ last.calc.m = Table(package)[n].m)
       /\ last.calc.ratio = Table(package)[n].k + 1 => last.calc.n > n

C23_Witness ==
  /\ last.op = "calculateLux"
  /\ last.calc.ratio = Table(package)[4].k
  /\ last.calc.n = 4
  /\ last.args = <<2^TSL2561_LUX_RATIOSCALE, Table(package)[4].k>>

\* C24: for a fixed ch1 and fixed settings, if ch0 < ch0' and both select
\* the same table entry then calculateLux(ch0, ch1) <= calculateLux(ch0', ch1).
C24_MonotoneInBroadband ==
  last.op = "calculateLux"
  => \A input \in LuxInputs :
       (input[2] = last.args[2] /\ input[1] < last.args[1])
       => \A r \in LuxSteps(package, last.pre.it, last.pre.gain,
                            input[1], input[2]) :
            r.n = last.calc.n => r.lux <= last.ret

\* floor(raw * scale / 2^TSL2561_LUX_CHSCALE) without overflow, scale being
\* the integration-time constant, times 16 when the gain is 1x
ExactScaled(raw, integrationTime, gain) ==
  LET base == IF integrationTime = TSL2561_INTEGRATIONTIME_13MS
                THEN TSL2561_LUX_CHSCALE_TINT0
              ELSE IF integrationTime = TSL2561_INTEGRATIONTIME_101MS
                THEN TSL2561_LUX_CHSCALE_TINT1
              ELSE 2^TSL2561_LUX_CHSCALE
      scale == IF gain = TSL2561_GAIN_0X THEN 16 * base ELSE base
      unit == 2^TSL2561_LUX_CHSCALE
  IN raw * (scale \div unit) + ((raw * (scale % unit)) \div unit)

\* C25: for every raw value, integration time and gain the scaled channel
\* of the code equals floor(raw * scale / 2^SCALE_BITS).
C25_ScalingIsExact ==
  last.op = "calculateLux"
  => /\ last.calc.channel0 = ExactScaled(last.args[1], last.pre.it, last.pre.gain)
     /\ last.calc.channel1 = ExactScaled(last.args[2], last.pre.it, last.pre.gain)

\* C26: calculateLux never fails and never divides by zero: the division is
\* made only when the scaled channel0 is non-zero, the ratio is 0 when it is
\* zero, and a lux value is always returned.
C26_NoDivisionByZero ==
  /\ last.op = "calculateLux"
     => /\ last.calc.divided => last.calc.channel0 # 0
        /\ last.calc.channel0 = 0 => last.calc.ratio = 0
        /\ ~last.calc.fault
        /\ last.ret = last.calc.lux /\ last.ret >= 0
  /\ last.op = "none"
     => \A input \in LuxInputs :
          tsl2561CalculateLux(Entry, input[1], input[2]) # {}

C26_Witness ==
  /\ last.op = "calculateLux" /\ last.args = <<0, 500>>
  /\ last.calc.channel0 = 0 /\ last.calc.channel1 > 0
  /\ ~last.calc.divided
  /\ last.calc.ratio = 0

\* bit (a power of two) is set in the byte x
HasBit(x, bit) == (x \div bit) % 2 = 1

\* the register address in a register byte
RegisterOf(x) == x % 16

\* C27 (as stated): every register access of the driver uses a register byte
\* with both the command bit and the word bit set.
C27_CommandAndWordBitOnEveryAccess ==
  \A k \in XferIndices(last.tr) :
    /\ HasBit(last.tr[k].buf[2], TSL2561_COMMAND_BIT)
    /\ HasBit(last.tr[k].buf[2], TSL2561_WORD_BIT)

\* C27 (amended): every register access of the driver has the command bit
\* set; the word bit is set on the 16-bit reads of channel 0 and channel 1
\* and on no write of the control or the timing register.
C27_CommandBitAlwaysWordBitOnReads ==
  \A k \in XferIndices(last.tr) :
    LET e == last.tr[k]
    IN /\ HasBit(e.buf[2], TSL2561_COMMAND_BIT)
       /\ HasBit(e.buf[2], TSL2561_WORD_BIT) <=> e.rlen = 2
       /\ e.rlen = 2 => RegisterOf(e.buf[2]) \in {TSL2561_REGISTER_CHAN0_LOW,
                                                  TSL2561_REGISTER_CHAN1_LOW}
       /\ e.rlen = 0 => RegisterOf(e.buf[2]) \in {TSL2561_REGISTER_CONTROL,
                                                  TSL2561_REGISTER_TIMING}

C27_Witness ==
  /\ last.op = "getLuminosity" /\ last.pre.ini
  /\ Len(last.tr) = 5
  /\ last.tr[1].buf[2] = TSL2561_COMMAND_BIT
  /\ last.tr[3].rlen = 2
  /\ last.tr[3].buf[2] = TSL2561_COMMAND_BIT + TSL2561_WORD_BIT + TSL2561_REGISTER_CHAN0_LOW
  /\ last.tr[4].buf[2] = TSL2561_COMMAND_BIT + TSL2561_WORD_BIT + TSL2561_REGISTER_CHAN1_LOW

\* C29: every call of init, enable, disable, setTiming or getLuminosity
\* returns after finitely many bus-init attempts and bus transfers: at most
\* one activation of init is ever on the stack (it sets initialized before
\* it calls setTiming), also when bus bring-up fails on every attempt.
C29_LazyInitTerminates ==
  last.op \in LazyOps \cup {"init"}
  => /\ ~last.overflow
     /\ last.deep <= 1
     /\ Cardinality(BusInits(last.tr)) <= 3
     /\ Cardinality(XferIndices(last.tr)) <= 7
     /\ BusUps(last.tr) = {} => Cardinality(XferIndices(last.tr)) <= 4

C29_Witness ==
  /\ last.op = "setTiming" /\ ~last.pre.ini
  /\ Cardinality(BusInits(last.tr)) = 1
  /\ BusUps(last.tr) = {1}
  /\ last.deep = 1
  /\ Cardinality(XferIndices(last.tr)) = 6
  /\ tsl2561Initialised

IsControlWrite(e) == IsXfer(e) /\ e.rlen = 0 /\ e.buf[2] = ControlReg

IsChannelRead(e) == IsRead16(e, Chan0Reg) \/ IsRead16(e, Chan1Reg)

\* C30: each timing-register write and each channel-0 or channel-1 read is
\* issued while the most recent control-register write is the power-on
\* value.
C30_PowerOnBeforeAccess ==
  \A k \in 1 .. Len(last.tr) :
    (IsTimingWrite(last.tr[k]) \/ IsChannelRead(last.tr[k]))
    => LET control == {j \in 1 .. k - 1 : IsControlWrite(last.tr[j])}
       IN control # {} /\ IsPowerOn(last.tr[Max(control)])

C30_Witness ==
  /\ last.op = "getLuminosity" /\ ~last.pre.ini
  /\ BusUps(last.tr) = {1}
  /\ IsPowerOff(last.tr[4]) /\ IsPowerOn(last.tr[5])
  /\ IsChannelRead(last.tr[7]) /\ IsChannelRead(last.tr[8])
  /\ last.out = [broadband |-> 4660, ir |-> 65535]

\* the frame and the lengths of a bus transaction function
Frame(op) ==
  IF op.name = "writeCmd"
    THEN [buf |-> <<TSL2561_ADDRESS, op.reg, 0, 0, 0, 0>>, wlen |-> 2, rlen |-> 0]
  ELSE IF op.name = "write8"
    THEN [buf |-> <<TSL2561_ADDRESS, op.reg, op.value % 256, 0, 0, 0>>,
          wlen |-> 3, rlen |-> 0]
  ELSE [buf |-> <<TSL2561_ADDRESS, op.reg, TSL2561_ADDRESS + TSL2561_READBIT,
                  0, 0, 0>>,
        wlen |-> 2, rlen |-> 2]

\* what the engine has just been invoked with
SentFrame ==
  [buf |-> callers.sent.buf, wlen |-> callers.sent.wlen,
   rlen |-> callers.sent.rlen]

\* C28: when every bus operation runs to completion before the next starts,
\* the engine is invoked with the frame and the lengths of the caller's
\* operation (and the clear loop stays inside the buffer); without such
\* serialization an invocation with a frame of neither caller is reachable
\* (C28_Witness).
C28_SerializedCallersSendOwnFrame ==
  ~callers.overlapped
  => /\ ~callers.oob
     /\ callers.sent.by # 0 => SentFrame = Frame(callers.sent.op)

C28_Witness ==
  /\ callers.overlapped
  /\ callers.sent.by # 0
  /\ callers.sent.other # NoOp
  /\ SentFrame # Frame(callers.sent.op)
  /\ SentFrame # Frame(callers.sent.other)

ControlWrites(tr) == Indices(tr, IsControlWrite)

TimingWrites(tr) == Indices(tr, IsTimingWrite)

\* C31: whenever init, setTiming or getLuminosity returns success, the most
\* recent control-register write is the power-off value.
C31_PowerOffAfterSuccess ==
  (last.op \in {"init", "setTiming", "getLuminosity"}
     /\ last.ret = TSL2561_ERROR_OK)
  => (/\ ControlWrites(last.tr) # {}
      /\ IsPowerOff(last.tr[Max(ControlWrites(last.tr))]))

C31_Witness ==
  /\ last.op = "init" /\ last.ret = TSL2561_ERROR_OK
  /\ Len(last.tr) = 4
  /\ IsPowerOn(last.tr[2]) /\ last.tr[2].ok
  /\ IsPowerOff(last.tr[4]) /\ last.tr[4].ok
  /\ dev.control = TSL2561_CONTROL_POWEROFF

\* the call is the first use of the driver: no bus function has run yet
FirstUse == ~last.pre.ini /\ last.pre.mbuf = ZeroBuffer

\* C32: a first-use setTiming(x, g) whose bus comes up: the implicit init
\* writes the defaults to the timing register first, the byte (x | g) is
\* written after it, and on return integrationTime = x, gain = g and the
\* last timing-register write is (x | g).
C32_FirstUseSetTiming ==
  (/\ last.op = "setTiming" /\ FirstUse
   /\ IsBusInit(last.tr[1]) /\ last.tr[1].ok)
  => LET timing == TimingWrites(last.tr)
         requested == BitOr(last.args[1], last.args[2])
         defaults == BitOr(TSL2561_INTEGRATIONTIME_402MS, TSL2561_GAIN_0X)
     IN /\ Cardinality(BusInits(last.tr)) = 1
        /\ Cardinality(timing) = 2
        /\ last.tr[Min(timing)].buf[3] = defaults
        /\ last.tr[Max(timing)].buf[3] = requested
        /\ tsl2561IntegrationTime = last.args[1]
        /\ tsl2561Gain = last.args[2]
        /\ tsl2561Initialised
        /\ last.tr[Max(timing)].ok => dev.timing = requested

C32_Witness ==
  /\ last.op = "setTiming" /\ FirstUse
  /\ last.args = <<TSL2561_INTEGRATIONTIME_13MS, TSL2561_GAIN_16X>>
  /\ Len(last.tr) = 7 /\ last.tr[1].ok
  /\ last.tr[3].buf[3] = 2 /\ last.tr[6].buf[3] = 16 /\ last.tr[6].ok
  /\ tsl2561IntegrationTime = TSL2561_INTEGRATIONTIME_13MS
  /\ tsl2561Gain = TSL2561_GAIN_16X
  /\ dev.timing = 16

\* C33: calculateLux invokes neither the bus initialization nor the bus
\* engine, requests no delay, and leaves initialized, integrationTime, gain,
\* the bus buffers and the device unchanged.
C33_CalculateLuxStep ==
  last'.op = "calculateLux"
  => /\ last'.tr = <<>>
     /\ UNCHANGED <<tsl2561Initialised, tsl2561IntegrationTime, tsl2561Gain,
                    I2CMasterBuffer, I2CSlaveBuffer, I2CWriteLength,
                    I2CReadLength, i, dev, busUp>>

C33_CalculateLuxHasNoEffect == [][C33_CalculateLuxStep]_vars

C33_Witness ==
  /\ last.op = "calculateLux" /\ last.args = <<500, 30>>
  /\ ~last.pre.ini /\ ~tsl2561Initialised
  /\ last.tr = <<>>
  /\ I2CMasterBuffer = ZeroBuffer /\ dev = DevReset

\* C34: on an initialized driver enable, disable and getLuminosity leave
\* integrationTime and gain unchanged and never write the timing register;
\* only setTiming (directly or through init) changes them.
C34_TimingOnlyBySetTiming ==
  /\ (last.op \in {"enable", "disable", "getLuminosity"} /\ last.pre.ini)
     => (/\ tsl2561IntegrationTime = last.pre.it
         /\ tsl2561Gain = last.pre.gain
         /\ TimingWrites(last.tr) = {}
         /\ \A k \in 1 .. Len(last.tr) :
              last.tr[k].it = last.pre.it /\ last.tr[k].gain = last.pre.gain)
  /\ (last.op # "none"
        /\ (tsl2561IntegrationTime # last.pre.it \/ tsl2561Gain # last.pre.gain))
     => last.op \in {"setTiming", "init"}

C34_Witness ==
  /\ last.op = "getLuminosity" /\ last.pre.ini
  /\ last.pre.it = TSL2561_INTEGRATIONTIME_13MS
  /\ last.pre.gain = TSL2561_GAIN_16X
  /\ tsl2561IntegrationTime = TSL2561_INTEGRATIONTIME_13MS
  /\ tsl2561Gain = TSL2561_GAIN_16X
  /\ Len(last.tr) = 5 /\ IsDelay(last.tr[2]) /\ last.tr[2].ms = 14

\* the flag as it was before event k of the call that takes this step
FlagBefore(k) == IF k = 1 THEN tsl2561Initialised ELSE last'.tr[k - 1].ini

\* C35: the initialized flag becomes true only inside an init() whose bus
\* bring-up succeeded, and once true it is never set back to false.
C35_FlagStep ==
  /\ tsl2561Initialised => tsl2561Initialised'
  /\ (~tsl2561Initialised /\ tsl2561Initialised') => BusUps(last'.tr) # {}
  /\ \A k \in 1 .. Len(last'.tr) :
       /\ FlagBefore(k) => last'.tr[k].ini
       /\ (last'.tr[k].ini /\ ~FlagBefore(k))
          => (k > 1 /\ IsBusInit(last'.tr[k - 1]) /\ last'.tr[k - 1].ok)

C35_InitialisedIsMonotonic == [][C35_FlagStep]_vars

C35_Witness ==
  /\ last.op = "init" /\ last.pre.ini
  /\ Len(last.tr) = 1 /\ ~last.tr[1].ok
  /\ last.ret = TSL2561_ERROR_I2CINIT
  /\ tsl2561Initialised

\* the lines the command that has just run printed
Printed == SubSeq(console, Len(lastCmd.shown) + 1, Len(console))

\* C36: the orientation command changes the LCD orientation only for the
\* values 0 (portrait) and 1 (landscape): with no argument it prints the
\* current orientation and changes nothing, and with any other value it
\* prints the invalid-value message and leaves the orientation unchanged.
C36_OrientationOnlyForZeroAndOne ==
  lastCmd # NoCmd
  => /\ lastCmd.argc = 0
        => /\ lcdOrientation = lastCmd.before
           /\ Printed = << <<"%d", lastCmd.before>> >>
     /\ (lastCmd.argc > 0 /\ lastCmd.value = 0)
        => (lcdOrientation = LCD_ORIENTATION_PORTRAIT /\ Printed = <<>>)
     /\ (lastCmd.argc > 0 /\ lastCmd.value = 1)
        => (lcdOrientation = LCD_ORIENTATION_LANDSCAPE /\ Printed = <<>>)
     /\ (lastCmd.argc > 0 /\ lastCmd.value \notin {0, 1})
        => /\ lcdOrientation = lastCmd.before
           /\ Printed = << <<"Invalid value: Enter 0 or 1">> >>
     /\ lcdOrientation # lastCmd.before
        => (lastCmd.argc > 0 /\ lastCmd.value \in {0, 1})

C36_Witness ==
  /\ lastCmd.argc = 1 /\ lastCmd.argv[1] = <<"2", "5", "6">>
  /\ lastCmd.parsed /\ lastCmd.value = 256
  /\ lastCmd.before = LCD_ORIENTATION_LANDSCAPE
  /\ lcdOrientation = LCD_ORIENTATION_LANDSCAPE
  /\ Printed = << <<"Invalid value: Enter 0 or 1">> >>

====
